---- MODULE Spec2Model ----
(***************************************************************************)
(* Model of feishu-messager (src/main.go): the dispatch driver `main` and  *)
(* the mention resolver `parseUsers`.                                      *)
(*                                                                         *)
(* Strings are sequences of one-character strings.  The raw text of the    *)
(* `assignees` input is either the empty text <<>> or a one-element        *)
(* sequence <<d>> holding the JSON document d it spells; a document is a    *)
(* record [kind, login, elems] (see Doc below).                            *)
(***************************************************************************)
EXTENDS Naturals, Sequences, FiniteSets

VARIABLES env, pc, postMessage, atUsers, requestBody, attempts, resp,
          feishuResp, stderr, exited, exitCode

vars == <<env, pc, postMessage, atUsers, requestBody, attempts, resp,
          feishuResp, stderr, exited, exitCode>>

----------------------------------------------------------------------------
(* Bounds of the model.                                                    *)

\* largest number of comma-separated pieces of a drawn user-map string
MaxPairs == 3
\* largest number of elements of a drawn assignees array
MaxAssignees == 2

----------------------------------------------------------------------------
(* Strings: the functions of package strings that parseUsers calls.        *)

EmptyStr == <<>>

\* unicode.IsSpace, restricted to the characters of the model's alphabet
IsSpace(c) == c \in {" ", "\t", "\n"}

\* strings.Index(s, c) for a one-character c, 1-based; 0 when absent
RECURSIVE IndexFrom(_, _, _)
IndexFrom(s, c, i) ==
  IF i > Len(s) THEN 0
  ELSE IF s[i] = c THEN i
  ELSE IndexFrom(s, c, i + 1)

Index(s, c) == IndexFrom(s, c, 1)

\* strings.TrimLeftFunc(s, unicode.IsSpace)
RECURSIVE TrimLeft(_)
TrimLeft(s) ==
  IF s # <<>> /\ IsSpace(Head(s)) THEN TrimLeft(Tail(s)) ELSE s

\* strings.TrimRightFunc(s, unicode.IsSpace)
RECURSIVE TrimRight(_)
TrimRight(s) ==
  IF s # <<>> /\ IsSpace(s[Len(s)])
  THEN TrimRight(SubSeq(s, 1, Len(s) - 1))
  ELSE s

\* strings.TrimSpace
TrimSpace(s) == TrimRight(TrimLeft(s))

\* strings.Split(s, sep) for a one-character sep: every piece, empty ones too
RECURSIVE Split(_, _)
Split(s, sep) ==
  LET i == Index(s, sep) IN
  IF i = 0 THEN <<s>>
  ELSE <<SubSeq(s, 1, i - 1)>> \o Split(SubSeq(s, i + 1, Len(s)), sep)

\* strings.SplitN(s, sep, 2): cut at the first sep only
SplitN2(s, sep) ==
  LET i == Index(s, sep) IN
  IF i = 0 THEN <<s>>
  ELSE <<SubSeq(s, 1, i - 1), SubSeq(s, i + 1, Len(s))>>

\* the literal parts of the format string of line 229
AtOpen == <<"<", "a", "t", " ", "u", "s", "e", "r", "_", "i", "d", "=", "\"">>
AtMid == <<"\"", ">">>
AtClose == <<"<", "/", "a", "t", ">", " ">>

\* fmt.Sprintf(`<at user_id="%s">%s</at> `, openID, username)
SprintfAt(openID, username) ==
  AtOpen \o openID \o AtMid \o username \o AtClose

----------------------------------------------------------------------------
(* JSON documents and encoding/json's Unmarshal into the two targets of    *)
(* parseUsers.  A login field is [t, s]: t is "absent", "null", "string"   *)
(* or "number"; s is the string's value.  A document is                    *)
(*   kind "syntax": not JSON;  "null";  "scalar": a number, string, bool;  *)
(*   "object": with the login field `login`;  "array": of `elems`, each    *)
(*   an element [kind, login] of kind "object", "null" or "scalar".        *)

NoField == [t |-> "absent", s |-> <<>>]
StrField(s) == [t |-> "string", s |-> s]
NumField == [t |-> "number", s |-> <<>>]
NullField == [t |-> "null", s |-> <<>>]

Doc(kind, login, elems) == [kind |-> kind, login |-> login, elems |-> elems]
ObjDoc(login) == Doc("object", login, <<>>)
ArrDoc(elems) == Doc("array", NoField, elems)
Elem(kind, login) == [kind |-> kind, login |-> login]
ObjElem(login) == Elem("object", login)

\* decoding a JSON value into a struct{Login string}: [ok, Login].
\* null leaves the target untouched; a non-object, or a login that is not a
\* string, is an UnmarshalTypeError; an absent or null login leaves "".
DecodeStruct(kind, login) ==
  IF kind = "null" THEN [ok |-> TRUE, Login |-> EmptyStr]
  ELSE IF kind # "object" THEN [ok |-> FALSE, Login |-> EmptyStr]
  ELSE IF login.t = "string" THEN [ok |-> TRUE, Login |-> login.s]
  ELSE IF login.t = "number" THEN [ok |-> FALSE, Login |-> EmptyStr]
  ELSE [ok |-> TRUE, Login |-> EmptyStr]

\* json.Unmarshal(data, &assignees) with assignees []struct{Login string}:
\* [err, val].  A type error inside an element is remembered and returned
\* after the whole array is decoded.
UnmarshalSlice(d) ==
  IF d.kind = "syntax" THEN [err |-> TRUE, val |-> <<>>]
  ELSE IF d.kind = "null" THEN [err |-> FALSE, val |-> <<>>]
  ELSE IF d.kind # "array" THEN [err |-> TRUE, val |-> <<>>]
  ELSE LET dec == [i \in 1..Len(d.elems) |->
                     DecodeStruct(d.elems[i].kind, d.elems[i].login)]
       IN [err |-> \E i \in 1..Len(d.elems) : ~dec[i].ok,
           val |-> [i \in 1..Len(d.elems) |-> [Login |-> dec[i].Login]]]

UnmarshalStructNoObjects(d) == [err |-> TRUE, val |-> [Login |-> EmptyStr]]

\* json.Unmarshal(data, &assignee) with assignee struct{Login string}
UnmarshalStruct(d) ==
  IF d.kind = "syntax" THEN [err |-> TRUE, val |-> [Login |-> EmptyStr]]
  ELSE LET dec == DecodeStruct(d.kind, d.login)
       IN [err |-> ~dec.ok, val |-> [Login |-> dec.Login]]

----------------------------------------------------------------------------
(* parseUsers (lines 179-234).                                             *)

\* lines 201-207: the non-empty logins
LoginSetOf(assignees) ==
  {assignees[i].Login : i \in {j \in 1..Len(assignees) :
                                 assignees[j].Login # EmptyStr}}

ToLower(c) == IF c = "A" THEN "a" ELSE c

InLoginSetFold(loginSet, username) ==
  \E l \in loginSet :
    /\ Len(l) = Len(username)
    /\ \A i \in 1..Len(l) : ToLower(l[i]) = ToLower(username[i])

\* line 227: loginSet[username]
InLoginSet(loginSet, username) == username \in loginSet

\* one iteration of the loop of lines 212-231: the text it writes to result
PairOutput(pair0, loginSet) ==
  LET pair == TrimSpace(pair0) IN
  IF pair = EmptyStr THEN EmptyStr
  ELSE LET parts == SplitN2(pair, ":") IN
       IF Len(parts) # 2 THEN EmptyStr
       ELSE LET username == TrimSpace(parts[1])
                openID == TrimSpace(parts[2])
            IN IF InLoginSet(loginSet, username)
               THEN SprintfAt(openID, username)
               ELSE EmptyStr

\* a loop that stops at the first piece it cannot use
RECURSIVE EmitLoopBreak(_, _, _, _)
EmitLoopBreak(pairs, loginSet, i, result) ==
  IF i > Len(pairs) THEN result
  ELSE LET pair == TrimSpace(pairs[i]) IN
       IF pair = EmptyStr \/ Index(pair, ":") = 0 THEN result
       ELSE EmitLoopBreak(pairs, loginSet, i + 1,
                          result \o PairOutput(pairs[i], loginSet))

\* a loop that mentions a user once, by the first pair naming it
RECURSIVE EmitLoopDedup(_, _, _, _)
EmitLoopDedup(pairs, loginSet, i, result) ==
  IF i > Len(pairs) THEN result
  ELSE LET pair == TrimSpace(pairs[i])
           username == TrimSpace(SplitN2(pair, ":")[1])
       IN EmitLoopDedup(pairs, loginSet \ {username}, i + 1,
                        result \o PairOutput(pairs[i], loginSet))

\* the loop of lines 212-231 from pair i on, result being what is written
RECURSIVE EmitLoop(_, _, _, _)
EmitLoop(pairs, loginSet, i, result) ==
  IF i > Len(pairs) THEN result
  ELSE EmitLoop(pairs, loginSet, i + 1,
                result \o PairOutput(pairs[i], loginSet))

\* a resolver that walks the assignees and looks each up in the mapping
RECURSIVE EmitByAssignee(_, _, _, _)
EmitByAssignee(pairs, assignees, i, result) ==
  IF i > Len(assignees) THEN result
  ELSE EmitByAssignee(pairs, assignees, i + 1,
         result \o (IF assignees[i].Login = EmptyStr THEN EmptyStr
                    ELSE EmitLoop(pairs, {assignees[i].Login}, 1, EmptyStr)))

RenderByAssignee(userMaps, assignees) ==
  EmitByAssignee(Split(userMaps, ","), assignees, 1, EmptyStr)

\* lines 201-233: from the decoded assignees to the returned string
Render(userMaps, assignees) ==
  EmitLoop(Split(userMaps, ","), LoginSetOf(assignees), 1, EmptyStr)

\* a resolver that goes on with what the array decoding left behind
parseUsersKeepPartial(um, raw) ==
  IF um = EmptyStr \/ raw = EmptyStr THEN EmptyStr
  ELSE LET d == raw[1]
           asSlice == UnmarshalSlice(d)
           asStruct == UnmarshalStruct(d)
       IN IF asSlice.err /\ ~asStruct.err
          THEN Render(um, <<asStruct.val>>)
          ELSE Render(um, asSlice.val)

\* lines 179-199, then Render
parseUsers(userMaps, assigneesJSON) ==
  IF userMaps = EmptyStr \/ assigneesJSON = EmptyStr THEN EmptyStr
  ELSE LET d == assigneesJSON[1]
           asSlice == UnmarshalSlice(d)
           asStruct == UnmarshalStruct(d)
       IN IF asSlice.err
          THEN IF asStruct.err THEN EmptyStr
               ELSE Render(userMaps, <<asStruct.val>>)
          ELSE Render(userMaps, asSlice.val)

----------------------------------------------------------------------------
(* The process environment and getEnv (lines 33-44).                       *)

Keys == {"bot_token", "post_message", "message_file", "msg_type",
         "user_maps", "assignees"}

\* strings.ToUpper(key)
UpperKey(key) ==
  CASE key = "bot_token" -> "BOT_TOKEN"
    [] key = "post_message" -> "POST_MESSAGE"
    [] key = "message_file" -> "MESSAGE_FILE"
    [] key = "msg_type" -> "MSG_TYPE"
    [] key = "user_maps" -> "USER_MAPS"
    [] key = "assignees" -> "ASSIGNEES"

\* "INPUT_" + strings.ToUpper(strings.ReplaceAll(key, "-", "_"))
InputKey(key) ==
  CASE key = "bot_token" -> "INPUT_BOT_TOKEN"
    [] key = "post_message" -> "INPUT_POST_MESSAGE"
    [] key = "message_file" -> "INPUT_MESSAGE_FILE"
    [] key = "msg_type" -> "INPUT_MSG_TYPE"
    [] key = "user_maps" -> "INPUT_USER_MAPS"
    [] key = "assignees" -> "INPUT_ASSIGNEES"

EnvNames == {UpperKey(k) : k \in Keys} \cup {InputKey(k) : k \in Keys}

\* os.Getenv(name) on the process environment env.vars
Getenv(name) == env.vars[name]

getEnv(key) ==
  IF Getenv(InputKey(key)) # EmptyStr THEN Getenv(InputKey(key))
  ELSE Getenv(UpperKey(key))

\* lines 48-53: the configuration values main reads
botToken == getEnv("bot_token")
messageFile == getEnv("message_file")
userMaps == getEnv("user_maps")
assigneesJSON == getEnv("assignees")

----------------------------------------------------------------------------
(* Inputs.                                                                 *)

RECURSIVE Join(_)
Join(ps) ==
  IF ps = <<>> THEN <<>>
  ELSE IF Len(ps) = 1 THEN ps[1]
  ELSE ps[1] \o <<",">> \o Join(Tail(ps))

RECURSIVE SeqsUpTo(_, _)
SeqsUpTo(S, n) ==
  IF n = 0 THEN {<<>>}
  ELSE LET shorter == SeqsUpTo(S, n - 1) IN
       shorter \cup {Append(q, x) : q \in {r \in shorter : Len(r) = n - 1},
                                    x \in S}

\* the comma-free pieces user-map strings are drawn from
PieceSet ==
  { <<"a", ":", "1">>,
    <<" ", "a", " ", ":", "\t", "3", " ">>,
    <<"A", ":", "5", ":", "6">>,
    <<"a">>,
    <<" ">>,
    <<":", "7">> }

UserMapsSet == {Join(ps) : ps \in SeqsUpTo(PieceSet, MaxPairs)}

ElemSet ==
  { ObjElem(StrField(<<"a">>)), ObjElem(StrField(<<"A">>)),
    Elem("scalar", NoField) }

DocSet ==
  { Doc("syntax", NoField, <<>>), Doc("null", NoField, <<>>),
    Doc("scalar", NoField, <<>>),
    ObjDoc(StrField(<<"a">>)), ObjDoc(StrField(<<"A">>)),
    ObjDoc(StrField(<<>>)), ObjDoc(NullField), ObjDoc(NoField),
    ObjDoc(NumField) }
  \cup {ArrDoc(es) : es \in SeqsUpTo(ElemSet, MaxAssignees)}

AssigneesSet == {EmptyStr} \cup {<<d>> : d \in DocSet}

\* an environment holding value v[k] for key k; layout says which of the two
\* names of a key carries it
EnvOf(v, layout) ==
  [n \in EnvNames |->
     LET k == CHOOSE k \in Keys : n \in {UpperKey(k), InputKey(k)} IN
     IF n = InputKey(k)
     THEN (IF layout = "plain" THEN EmptyStr ELSE v[k])
     ELSE (IF layout = "input" THEN EmptyStr
           ELSE IF layout = "plain" THEN v[k]
           ELSE IF k = "assignees" THEN <<Doc("syntax", NoField, <<>>)>>
           ELSE <<"z">>)]

NoFile == [exists |-> FALSE, content |-> EmptyStr]
NoResp == [received |-> FALSE, StatusCode |-> 0, readable |-> FALSE,
           body |-> [kind |-> "syntax", code |-> [t |-> "absent", n |-> 0],
                     msg |-> NoField]]
ZeroResp == [Code |-> 0, Msg |-> EmptyStr]
NoReport == [error |-> "", Code |-> 0, Msg |-> EmptyStr]
NoRequest == [built |-> FALSE, MsgType |-> EmptyStr, Text |-> EmptyStr]

----------------------------------------------------------------------------
(* The resolver on its own: parseUsers called on drawn inputs.             *)

InitResolver ==
  /\ \E um \in UserMapsSet, as \in AssigneesSet :
       env = [vars |-> EnvOf([k \in Keys |->
                                IF k = "user_maps" THEN um
                                ELSE IF k = "assignees" THEN as
                                ELSE EmptyStr], "input"),
              file |-> NoFile]
  /\ pc = "call"
  /\ postMessage = EmptyStr
  /\ atUsers = EmptyStr
  /\ requestBody = NoRequest
  /\ attempts = 0
  /\ resp = NoResp
  /\ feishuResp = ZeroResp
  /\ stderr = NoReport
  /\ exited = FALSE
  /\ exitCode = 0

CallParseUsers ==
  /\ pc = "call"
  /\ atUsers' = parseUsers(userMaps, assigneesJSON)
  /\ pc' = "returned"
  /\ UNCHANGED <<env, postMessage, requestBody, attempts, resp, feishuResp,
                 stderr, exited, exitCode>>

NextResolver == CallParseUsers

SpecResolver == InitResolver /\ [][NextResolver]_vars

----------------------------------------------------------------------------
(* The dispatch driver main (lines 46-174).                                *)

TextStr == <<"t", "e", "x", "t">>
MarkdownStr == <<"m", "a", "r", "k", "d", "o", "w", "n">>

\* http.StatusOK
StatusOK == 200

\* line 51 and lines 84-87: the message type after defaulting
msgType == IF getEnv("msg_type") = EmptyStr THEN TextStr ELSE getEnv("msg_type")

\* os.ReadFile(path): [err, content]
ReadFile(path) ==
  IF env.file.exists THEN [err |-> FALSE, content |-> env.file.content]
  ELSE [err |-> TRUE, content |-> EmptyStr]

\* http.NewRequest fails when the URL does not parse: a control character
\* in webhookBaseURL + "/" + botToken
IsCtl(c) == c \in {"\n", "\t"}
NewRequestFails(token) == \E j \in 1..Len(token) : IsCtl(token[j])

\* json.Unmarshal(responseBody, &feishuResp): [err, val]
UnmarshalResponse(body) ==
  IF body.kind = "null" THEN [err |-> FALSE, val |-> ZeroResp]
  ELSE IF body.kind # "object" THEN [err |-> TRUE, val |-> ZeroResp]
  ELSE [err |-> body.code.t = "string" \/ body.msg.t = "number",
        val |-> [Code |-> IF body.code.t = "number" THEN body.code.n ELSE 0,
                 Msg |-> IF body.msg.t = "string" THEN body.msg.s
                         ELSE EmptyStr]]

RequestFailedBoth(status, code) == status # StatusOK /\ code # 0

\* line 168: resp.StatusCode != http.StatusOK || feishuResp.Code != 0
RequestFailed(status, code) == status # StatusOK \/ code # 0

\* fmt.Fprintf(os.Stderr, "::error::...") followed by os.Exit(1)
Fatal(error, code, msg) ==
  /\ stderr' = [error |-> error, Code |-> code, Msg |-> msg]
  /\ exited' = TRUE
  /\ exitCode' = 1
  /\ pc' = "exited"

\* lines 48-64: read the configuration, check the required parameters
Validate ==
  /\ pc = "start"
  /\ postMessage' = getEnv("post_message")
  /\ IF botToken = EmptyStr
     THEN Fatal("Please set the BOT_TOKEN secret", 0, EmptyStr)
     ELSE IF getEnv("post_message") = EmptyStr /\ messageFile = EmptyStr
     THEN Fatal("Please set the post message", 0, EmptyStr)
     ELSE /\ pc' = "file"
          /\ UNCHANGED <<stderr, exited, exitCode>>
  /\ UNCHANGED <<env, atUsers, requestBody, attempts, resp, feishuResp>>

LoadMessageFileAlways ==
  /\ pc = "file"
  /\ IF messageFile # EmptyStr
     THEN IF ReadFile(messageFile).err
          THEN /\ Fatal("File not found", 0, EmptyStr)
               /\ UNCHANGED postMessage
          ELSE /\ postMessage' = ReadFile(messageFile).content
               /\ pc' = "mention"
               /\ UNCHANGED <<stderr, exited, exitCode>>
     ELSE /\ pc' = "mention"
          /\ UNCHANGED <<postMessage, stderr, exited, exitCode>>
  /\ UNCHANGED <<env, atUsers, requestBody, attempts, resp, feishuResp>>

\* lines 66-74: load the message from the file when no message is given
LoadMessageFile ==
  /\ pc = "file"
  /\ IF postMessage = EmptyStr /\ messageFile # EmptyStr
     THEN IF ReadFile(messageFile).err
          THEN /\ Fatal("File not found", 0, EmptyStr)
               /\ UNCHANGED postMessage
          ELSE /\ postMessage' = ReadFile(messageFile).content
               /\ pc' = "mention"
               /\ UNCHANGED <<stderr, exited, exitCode>>
     ELSE /\ pc' = "mention"
          /\ UNCHANGED <<postMessage, stderr, exited, exitCode>>
  /\ UNCHANGED <<env, atUsers, requestBody, attempts, resp, feishuResp>>

\* lines 76-82: prepend the mentions
MentionUsers ==
  /\ pc = "mention"
  /\ IF assigneesJSON # EmptyStr /\ userMaps # EmptyStr
     THEN /\ atUsers' = parseUsers(userMaps, assigneesJSON)
          /\ postMessage' = IF atUsers' # EmptyStr
                            THEN atUsers' \o postMessage
                            ELSE postMessage
     ELSE UNCHANGED <<atUsers, postMessage>>
  /\ pc' = "msgtype"
  /\ UNCHANGED <<env, requestBody, attempts, resp, feishuResp, stderr,
                 exited, exitCode>>

CheckMsgTypeLax ==
  /\ pc = "msgtype"
  /\ pc' = "build"
  /\ UNCHANGED <<env, postMessage, atUsers, requestBody, attempts, resp,
                 feishuResp, stderr, exited, exitCode>>

\* lines 84-93: default and check the message type
CheckMsgType ==
  /\ pc = "msgtype"
  /\ IF msgType # TextStr /\ msgType # MarkdownStr
     THEN Fatal("Unsupported MSG_TYPE", 0, EmptyStr)
     ELSE /\ pc' = "build"
          /\ UNCHANGED <<stderr, exited, exitCode>>
  /\ UNCHANGED <<env, postMessage, atUsers, requestBody, attempts, resp,
                 feishuResp>>

\* lines 95-135: build the request body (json.Marshal of a struct of
\* strings does not fail) and the request
BuildRequest ==
  /\ pc = "build"
  /\ requestBody' = [built |-> TRUE, MsgType |-> TextStr, Text |-> postMessage]
  /\ IF NewRequestFails(botToken)
     THEN Fatal("Failed to create request", 0, EmptyStr)
     ELSE /\ pc' = "send"
          /\ UNCHANGED <<stderr, exited, exitCode>>
  /\ UNCHANGED <<env, postMessage, atUsers, attempts, resp, feishuResp>>

\* the answers of the webhook: HTTP status, whether the body can be read,
\* and the body, a JSON document [kind, code, msg]
CodeField(n) == [t |-> "number", n |-> n]
NoCode == [t |-> "absent", n |-> 0]
BodySet ==
  { [kind |-> "object", code |-> CodeField(0), msg |-> StrField(<<"o", "k">>)],
    [kind |-> "object", code |-> CodeField(19001),
     msg |-> StrField(<<"b", "a", "d">>)],
    [kind |-> "object", code |-> NoCode, msg |-> NoField],
    [kind |-> "object", code |-> [t |-> "string", n |-> 0], msg |-> NoField],
    [kind |-> "object", code |-> CodeField(0), msg |-> NumField],
    [kind |-> "null", code |-> NoCode, msg |-> NoField],
    [kind |-> "syntax", code |-> NoCode, msg |-> NoField] }

ResponseSet ==
  [received : {TRUE}, StatusCode : {StatusOK, 500}, readable : {TRUE},
   body : BodySet]
  \cup {[received |-> TRUE, StatusCode |-> StatusOK, readable |-> FALSE,
         body |-> [kind |-> "object", code |-> CodeField(0),
                   msg |-> StrField(<<"o", "k">>)]]}

SendRequestRetry ==
  /\ pc = "send"
  /\ attempts < 3
  /\ attempts' = attempts + 1
  /\ \E failed \in BOOLEAN :
       IF failed
       THEN UNCHANGED <<resp, pc, stderr, exited, exitCode>>
       ELSE /\ \E r \in ResponseSet : resp' = r
            /\ pc' = "read"
            /\ UNCHANGED <<stderr, exited, exitCode>>
  /\ UNCHANGED <<env, postMessage, atUsers, requestBody, feishuResp>>

\* lines 137-141: client.Do(req), which fails (network, timeout) or answers
SendRequest ==
  /\ pc = "send"
  /\ attempts' = attempts + 1
  /\ \E failed \in BOOLEAN :
       IF failed
       THEN /\ Fatal("Failed to send request", 0, EmptyStr)
            /\ UNCHANGED resp
       ELSE /\ \E r \in ResponseSet : resp' = r
            /\ pc' = "read"
            /\ UNCHANGED <<stderr, exited, exitCode>>
  /\ UNCHANGED <<env, postMessage, atUsers, requestBody, feishuResp>>

\* lines 144-149: io.ReadAll(resp.Body)
ReadResponse ==
  /\ pc = "read"
  /\ IF ~resp.readable
     THEN Fatal("Failed to read response", 0, EmptyStr)
     ELSE /\ pc' = "parse"
          /\ UNCHANGED <<stderr, exited, exitCode>>
  /\ UNCHANGED <<env, postMessage, atUsers, requestBody, attempts, resp,
                 feishuResp>>

\* lines 160-165: decode the response
ParseResponse ==
  /\ pc = "parse"
  /\ IF UnmarshalResponse(resp.body).err
     THEN /\ Fatal("Failed to parse response", 0, EmptyStr)
          /\ UNCHANGED feishuResp
     ELSE /\ feishuResp' = UnmarshalResponse(resp.body).val
          /\ pc' = "check"
          /\ UNCHANGED <<stderr, exited, exitCode>>
  /\ UNCHANGED <<env, postMessage, atUsers, requestBody, attempts, resp>>

\* lines 167-174: check the response; main returns on success
CheckResponse ==
  /\ pc = "check"
  /\ IF RequestFailed(resp.StatusCode, feishuResp.Code)
     THEN Fatal("Request failed with code", feishuResp.Code, feishuResp.Msg)
     ELSE /\ exited' = TRUE
          /\ exitCode' = 0
          /\ pc' = "exited"
          /\ UNCHANGED stderr
  /\ UNCHANGED <<env, postMessage, atUsers, requestBody, attempts, resp,
                 feishuResp>>

\* the configurations the driver is run on
TokenSet == {EmptyStr, <<"T">>, <<"T", "\n">>}
MessageSet == {EmptyStr, <<"h", "i">>}
PathSet == {EmptyStr, <<"f">>}
MsgTypeSet == {EmptyStr, TextStr, MarkdownStr, <<"p", "o", "s", "t">>}
FileSet == {NoFile, [exists |-> TRUE, content |-> EmptyStr],
            [exists |-> TRUE, content |-> <<"h", "e", "l", "l", "o">>]}
DriverUserMaps ==
  {EmptyStr, <<"a", ":", "1", ",", "A", ":", "5", ":", "6">>,
   <<" ", "a", " ", ":", "\t", "3", " ", ",", "a">>}
DriverAssignees ==
  {EmptyStr} \cup
  {<<d>> : d \in {Doc("syntax", NoField, <<>>), Doc("scalar", NoField, <<>>),
                  ObjDoc(StrField(<<"a">>)),
                  ArrDoc(<<ObjElem(StrField(<<"A">>)),
                           ObjElem(StrField(<<"a">>))>>),
                  ArrDoc(<<ObjElem(StrField(<<"a">>)),
                           Elem("scalar", NoField)>>)}}
LayoutSet == {"input", "plain", "both"}

Init ==
  /\ \E tok \in TokenSet, m \in MessageSet, path \in PathSet,
        mt \in MsgTypeSet, um \in DriverUserMaps, as \in DriverAssignees,
        layout \in LayoutSet, f \in FileSet :
       env = [vars |-> EnvOf([k \in Keys |->
                                CASE k = "bot_token" -> tok
                                  [] k = "post_message" -> m
                                  [] k = "message_file" -> path
                                  [] k = "msg_type" -> mt
                                  [] k = "user_maps" -> um
                                  [] k = "assignees" -> as], layout),
              file |-> f]
  /\ pc = "start"
  /\ postMessage = EmptyStr
  /\ atUsers = EmptyStr
  /\ requestBody = NoRequest
  /\ attempts = 0
  /\ resp = NoResp
  /\ feishuResp = ZeroResp
  /\ stderr = NoReport
  /\ exited = FALSE
  /\ exitCode = 0

Next ==
  \/ Validate
  \/ LoadMessageFile
  \/ MentionUsers
  \/ CheckMsgType
  \/ BuildRequest
  \/ SendRequest
  \/ ReadResponse
  \/ ParseResponse
  \/ CheckResponse

Spec == Init /\ [][Next]_vars

----------------------------------------------------------------------------
(* Vocabulary of the properties of the resolver, stated on the raw inputs. *)

returned == pc = "returned"

CommasOf(s) == {i \in 1..Len(s) : s[i] = ","}
NumPieces(s) == Cardinality(CommasOf(s)) + 1
NthComma(s, k) ==
  CHOOSE i \in CommasOf(s) : Cardinality({j \in CommasOf(s) : j <= i}) = k

\* the k-th comma-separated piece of s
PieceOf(s, k) ==
  LET lo == IF k = 1 THEN 1 ELSE NthComma(s, k - 1) + 1
      hi == IF k = NumPieces(s) THEN Len(s) ELSE NthComma(s, k) - 1
  IN SubSeq(s, lo, hi)

\* s without its surrounding whitespace
Trimmed(s) ==
  LET ink == {i \in 1..Len(s) : ~IsSpace(s[i])} IN
  IF ink = {} THEN <<>>
  ELSE SubSeq(s, CHOOSE i \in ink : \A j \in ink : i <= j,
                 CHOOSE i \in ink : \A j \in ink : j <= i)

HasColon(p) == \E i \in 1..Len(p) : p[i] = ":"
FirstColon(p) ==
  CHOOSE i \in 1..Len(p) : p[i] = ":" /\ \A j \in 1..(i - 1) : p[j] # ":"
UsernameOf(p) == Trimmed(SubSeq(p, 1, FirstColon(p) - 1))
ExternalIDOf(p) == Trimmed(SubSeq(p, FirstColon(p) + 1, Len(p)))

\* the logins of the assignee records the raw text spells: those of an array
\* of records, or of one bare record; none when it is neither
RecordOK(kind, login) ==
  kind = "null" \/ (kind = "object" /\ login.t # "number")
AssignedLogins(raw) ==
  IF raw = EmptyStr THEN {}
  ELSE LET d == raw[1] IN
       IF d.kind = "array" /\ \A i \in 1..Len(d.elems) :
                                 RecordOK(d.elems[i].kind, d.elems[i].login)
       THEN {d.elems[i].login.s : i \in {j \in 1..Len(d.elems) :
                 d.elems[j].kind = "object" /\ d.elems[j].login.t = "string"}}
            \ {EmptyStr}
       ELSE IF d.kind = "object" /\ d.login.t = "string"
       THEN {d.login.s} \ {EmptyStr}
       ELSE {}

\* the raw text parses neither as an array of records nor as one record
Malformed(raw) ==
  /\ raw # EmptyStr
  /\ LET d == raw[1] IN
     /\ d.kind # "null"
     /\ ~(d.kind = "array" /\ \A i \in 1..Len(d.elems) :
                                RecordOK(d.elems[i].kind, d.elems[i].login))
     /\ ~(d.kind = "object" /\ d.login.t # "number")

\* piece k of the mapping is one a token is due for
Mentions(um, raw, k) ==
  LET p == PieceOf(um, k) IN
  HasColon(p) /\ UsernameOf(p) \in AssignedLogins(raw)

\* `<at user_id="ID">USERNAME</at> `
MentionToken(id, name) ==
  <<"<", "a", "t", " ", "u", "s", "e", "r", "_", "i", "d", "=", "\"">> \o id
  \o <<"\"", ">">> \o name \o <<"<", "/", "a", "t", ">", " ">>

RECURSIVE ExpectedFrom(_, _, _)
ExpectedFrom(um, raw, k) ==
  IF k > NumPieces(um) THEN <<>>
  ELSE (IF Mentions(um, raw, k)
        THEN MentionToken(ExternalIDOf(PieceOf(um, k)),
                          UsernameOf(PieceOf(um, k)))
        ELSE <<>>) \o ExpectedFrom(um, raw, k + 1)

\* the tokens a mention prefix is made of, as [ok, id, name] records; one
\* record with ok FALSE where the text stops being a sequence of tokens
HasPrefix(s, pre) == Len(s) >= Len(pre) /\ SubSeq(s, 1, Len(pre)) = pre
Drop(s, n) == SubSeq(s, n + 1, Len(s))
BadToken == [ok |-> FALSE, id |-> <<>>, name |-> <<>>]
RECURSIVE TokensOf(_)
TokensOf(out) ==
  IF out = <<>> THEN <<>>
  ELSE IF ~HasPrefix(out, <<"<", "a", "t", " ", "u", "s", "e", "r", "_",
                            "i", "d", "=", "\"">>) THEN <<BadToken>>
  ELSE LET r1 == Drop(out, 13)
           q == CHOOSE i \in 0..Len(r1) :
                  (i = 0 /\ \A j \in 1..Len(r1) : r1[j] # "\"")
                  \/ (i > 0 /\ r1[i] = "\"" /\ \A j \in 1..(i - 1) : r1[j] # "\"")
       IN IF q = 0 \/ ~HasPrefix(Drop(r1, q), <<">">>) THEN <<BadToken>>
          ELSE LET r2 == Drop(r1, q + 1)
                   e == CHOOSE i \in 0..Len(r2) :
                          (i = 0 /\ \A j \in 1..Len(r2) : r2[j] # "<")
                          \/ (i > 0 /\ r2[i] = "<"
                              /\ \A j \in 1..(i - 1) : r2[j] # "<")
               IN IF e = 0 \/ ~HasPrefix(Drop(r2, e - 1),
                                         <<"<", "/", "a", "t", ">", " ">>)
                  THEN <<BadToken>>
                  ELSE <<[ok |-> TRUE, id |-> SubSeq(r1, 1, q - 1),
                           name |-> SubSeq(r2, 1, e - 1)]>>
                       \o TokensOf(Drop(r2, e + 5))

WellFormedTokens(ts) == \A i \in 1..Len(ts) : ts[i].ok

\* the sequence s with its k-th element removed
RemoveAt(s, k) == SubSeq(s, 1, k - 1) \o SubSeq(s, k + 1, Len(s))
PiecesOf(um) == [k \in 1..NumPieces(um) |-> PieceOf(um, k)]

Permutations(n) ==
  {f \in [1..n -> 1..n] : \A i, j \in 1..n : f[i] = f[j] => i = j}

----------------------------------------------------------------------------
(* Properties of the resolver, checked under SpecResolver.                 *)

\* what parseUsers returns for each piece of the mapping taken alone, put
\* together in mapping order
RECURSIVE PieceByPiece(_, _, _)
PieceByPiece(um, raw, k) ==
  IF k > NumPieces(um) THEN <<>>
  ELSE parseUsers(PieceOf(um, k), raw) \o PieceByPiece(um, raw, k + 1)

\* C1: the mention tokens come in the order of the pairs of the user-map
\* string (the output is the outputs of its pieces, in mapping order), and
\* permuting the records of an assignees array never changes the output.
C1_MappingOrder ==
  returned =>
    /\ atUsers = PieceByPiece(userMaps, assigneesJSON, 1)
    /\ (assigneesJSON # EmptyStr /\ assigneesJSON[1].kind = "array") =>
         LET es == assigneesJSON[1].elems IN
         \A f \in Permutations(Len(es)) :
           parseUsers(userMaps, <<ArrDoc([i \in 1..Len(es) |-> es[f[i]]])>>)
             = atUsers

\* mapping "a:1,A:5:6" with assignees [A, a]: a's token, then A's
C1_Witness ==
  /\ returned
  /\ userMaps = <<"a", ":", "1", ",", "A", ":", "5", ":", "6">>
  /\ assigneesJSON = <<ArrDoc(<<ObjElem(StrField(<<"A">>)),
                               ObjElem(StrField(<<"a">>))>>)>>
  /\ atUsers = MentionToken(<<"1">>, <<"a">>)
                 \o MentionToken(<<"5", ":", "6">>, <<"A">>)

\* C2: a token `<at user_id="ID">USERNAME</at> ` is emitted for a piece of
\* the user-map string exactly when the piece has a colon and its trimmed
\* username equals, character for character, the non-empty login of a parsed
\* assignee record; with no such piece the result is the empty string.
C2_ExactMembership ==
  returned =>
    /\ atUsers = ExpectedFrom(userMaps, assigneesJSON, 1)
    /\ (\A k \in 1..NumPieces(userMaps) :
          ~Mentions(userMaps, assigneesJSON, k)) => atUsers = EmptyStr

\* "A:5:6,a:1,:7" with assignee a: only the pair a:1 is mentioned
C2_Witness ==
  /\ returned
  /\ userMaps = <<"A", ":", "5", ":", "6", ",", "a", ":", "1", ",", ":", "7">>
  /\ assigneesJSON = <<ArrDoc(<<ObjElem(StrField(<<"a">>))>>)>>
  /\ atUsers = MentionToken(<<"1">>, <<"a">>)

\* C4: a bare object {"login": L} gives what the one-element array
\* [{"login": L}] gives, for every user-map string and every L.
C4_BareObject ==
  returned =>
    /\ (assigneesJSON # EmptyStr /\ assigneesJSON[1].kind = "object") =>
         atUsers = parseUsers(userMaps,
                     <<ArrDoc(<<ObjElem(assigneesJSON[1].login)>>)>>)
    /\ (assigneesJSON # EmptyStr /\ assigneesJSON[1].kind = "array"
        /\ Len(assigneesJSON[1].elems) = 1
        /\ assigneesJSON[1].elems[1].kind = "object") =>
         atUsers = parseUsers(userMaps,
                     <<ObjDoc(assigneesJSON[1].elems[1].login)>>)

\* the bare object {"login":"a"} mentions a
C4_Witness ==
  /\ returned
  /\ assigneesJSON = <<ObjDoc(StrField(<<"a">>))>>
  /\ userMaps = <<"A", ":", "5", ":", "6", ",", "a", ":", "1">>
  /\ atUsers = MentionToken(<<"1">>, <<"a">>)

\* the external IDs of the pieces of um whose username is u, in mapping order
RECURSIVE IDsFor(_, _, _)
IDsFor(um, u, k) ==
  IF k > NumPieces(um) THEN <<>>
  ELSE (IF HasColon(PieceOf(um, k)) /\ UsernameOf(PieceOf(um, k)) = u
        THEN <<ExternalIDOf(PieceOf(um, k))>>
        ELSE <<>>) \o IDsFor(um, u, k + 1)

IDsOfTokens(ts) == [i \in 1..Len(ts) |-> ts[i].id]

\* C9: a username of the LoginSet that k valid pairs name gets k tokens, one
\* per occurrence, each with the external ID of its own pair, in mapping
\* order.
C9_Duplicates ==
  returned =>
    /\ WellFormedTokens(TokensOf(atUsers))
    /\ \A u \in AssignedLogins(assigneesJSON) :
         IDsOfTokens(SelectSeq(TokensOf(atUsers), LAMBDA t : t.name = u))
           = IDsFor(userMaps, u, 1)

\* "a:1,A:5:6, a :\t3 " with assignee a: tokens with IDs 1 and 3
C9_Witness ==
  /\ returned
  /\ userMaps = <<"a", ":", "1", ",", "A", ":", "5", ":", "6", ",",
                  " ", "a", " ", ":", "\t", "3", " ">>
  /\ assigneesJSON = <<ObjDoc(StrField(<<"a">>))>>
  /\ atUsers = MentionToken(<<"1">>, <<"a">>) \o MentionToken(<<"3">>, <<"a">>)

Skipped(p) == Trimmed(p) = <<>> \/ ~HasColon(p)

\* C10: a piece that is empty after trimming or has no colon yields no token
\* and removing it from the list leaves the output unchanged; every token
\* carries the trimmed text before the first colon of its piece as username
\* and the trimmed text after that first colon, further colons included, as
\* ID.
C10_SkippedPieces ==
  returned =>
    /\ \A k \in 1..NumPieces(userMaps) :
         Skipped(PieceOf(userMaps, k)) =>
           /\ parseUsers(PieceOf(userMaps, k), assigneesJSON) = EmptyStr
           /\ parseUsers(Join(RemoveAt(PiecesOf(userMaps), k)), assigneesJSON)
                = atUsers
    /\ LET ts == TokensOf(atUsers)
           due == {k \in 1..NumPieces(userMaps) :
                     Mentions(userMaps, assigneesJSON, k)}
       IN /\ WellFormedTokens(ts)
          /\ Len(ts) = Cardinality(due)
          /\ \A k \in due :
               LET n == Cardinality({j \in due : j <= k}) IN
               /\ ts[n].name = UsernameOf(PieceOf(userMaps, k))
               /\ ts[n].id = ExternalIDOf(PieceOf(userMaps, k))

\* "a, ,A:5:6" with assignees [A]: the token of A with ID 5:6
C10_Witness ==
  /\ returned
  /\ userMaps = <<"a", ",", " ", ",", "A", ":", "5", ":", "6">>
  /\ assigneesJSON = <<ArrDoc(<<ObjElem(StrField(<<"A">>))>>)>>
  /\ atUsers = MentionToken(<<"5", ":", "6">>, <<"A">>)

----------------------------------------------------------------------------
(* Properties of the driver, checked under Spec.                           *)

\* the message body: post_message, or the content of the message file
MessageBody ==
  IF getEnv("post_message") # EmptyStr THEN getEnv("post_message")
  ELSE env.file.content

FileUnreadable == messageFile # EmptyStr /\ ~env.file.exists

ConfigError ==
  \/ botToken = EmptyStr
  \/ getEnv("post_message") = EmptyStr /\ messageFile = EmptyStr
  \/ getEnv("post_message") = EmptyStr /\ FileUnreadable
  \/ getEnv("msg_type") \notin {EmptyStr, TextStr, MarkdownStr}

ConfigReports == {"Please set the BOT_TOKEN secret",
                  "Please set the post message", "File not found",
                  "Unsupported MSG_TYPE"}

\* the run is past the mention step of lines 76-82
PastMention ==
  \/ pc \in {"msgtype", "build", "send", "read", "parse", "check"}
  \/ exited /\ stderr.error \notin {"Please set the BOT_TOKEN secret",
                                    "Please set the post message",
                                    "File not found"}

\* C3: malformed assignees JSON is not fatal: parseUsers gives the empty
\* string, the message body stays as it was, and a run whose configuration
\* is otherwise valid goes on to build and send the request with that body.
C3_MalformedNotFatal ==
  (Malformed(assigneesJSON) /\ userMaps # EmptyStr) =>
    /\ PastMention => (atUsers = EmptyStr /\ postMessage = MessageBody)
    /\ (exited /\ ~ConfigError /\ ~NewRequestFails(botToken)) =>
         /\ attempts = 1
         /\ requestBody.built
         /\ requestBody.Text = MessageBody

\* assignees [{"login":"a"}, 5] with mapping "a:1,A:5:6": sent, exit 0
C3_Witness ==
  /\ exited /\ exitCode = 0 /\ attempts = 1
  /\ userMaps = <<"a", ":", "1", ",", "A", ":", "5", ":", "6">>
  /\ assigneesJSON = <<ArrDoc(<<ObjElem(StrField(<<"a">>)),
                               Elem("scalar", NoField)>>)>>
  /\ requestBody.Text = <<"h", "i">>

\* the response body as JSON: whether it decodes, and its code and msg
BodyParses(b) ==
  \/ b.kind = "null"
  \/ b.kind = "object" /\ b.code.t # "string" /\ b.msg.t # "number"
BodyCode(b) == IF b.kind = "object" /\ b.code.t = "number" THEN b.code.n ELSE 0
BodyMsg(b) == IF b.kind = "object" /\ b.msg.t = "string" THEN b.msg.s ELSE <<>>

Answered == resp.received /\ resp.readable /\ BodyParses(resp.body)
Success == Answered /\ resp.StatusCode = 200 /\ BodyCode(resp.body) = 0

\* C5: the exit status is 0 exactly when a response was received with HTTP
\* status 200 and a decoded body of code 0; every other outcome once the
\* request is sent exits with status 1, and a decoded response that is not
\* ok is reported with its code and message.
C5_ExitStatus ==
  exited =>
    /\ exitCode = 0 <=> Success
    /\ (attempts >= 1 /\ ~Success) => exitCode = 1
    /\ (Answered /\ ~Success) =>
         /\ stderr.error = "Request failed with code"
         /\ stderr.Code = BodyCode(resp.body)
         /\ stderr.Msg = BodyMsg(resp.body)

\* HTTP 200 with {"code":19001,"msg":"bad"}: exit 1 reporting both
C5_Witness ==
  /\ exited /\ exitCode = 1
  /\ resp.StatusCode = 200
  /\ stderr.Code = 19001
  /\ stderr.Msg = <<"b", "a", "d">>

\* C6: with a configuration error (no token, no message source, unreadable
\* message file, unsupported msg_type) the run stays within the steps that
\* precede the request until it exits, sends no request and exits with
\* status 1; an unset msg_type is taken as "text" and is no error.
C6_ConfigFatal ==
  /\ ConfigError =>
       /\ pc \in {"start", "file", "mention", "msgtype", "exited"}
       /\ attempts = 0
       /\ ~requestBody.built
       /\ ~resp.received
       /\ exited => (exitCode = 1 /\ stderr.error \in ConfigReports)
       /\ exited <=> pc = "exited"
  /\ (exited /\ stderr.error \in ConfigReports) => ConfigError
  /\ getEnv("msg_type") = EmptyStr =>
       /\ msgType = TextStr
       /\ stderr.error # "Unsupported MSG_TYPE"

\* msg_type "post" with token and message set: exit 1, nothing sent
C6_Witness ==
  /\ exited /\ exitCode = 1 /\ attempts = 0
  /\ getEnv("msg_type") = <<"p", "o", "s", "t">>
  /\ botToken = <<"T">>
  /\ getEnv("post_message") = <<"h", "i">>
  /\ stderr.error = "Unsupported MSG_TYPE"

\* C7: the text of the request is the resolver's output followed by the
\* message body when user_maps and assignees are both non-empty, and the
\* message body otherwise.
C7_ContentText ==
  requestBody.built =>
    requestBody.Text =
      IF userMaps # EmptyStr /\ assigneesJSON # EmptyStr
      THEN parseUsers(userMaps, assigneesJSON) \o MessageBody
      ELSE MessageBody

\* no post_message, a file holding "hello", one mention: sent as
\* `<at user_id="1">a</at> hello`
C7_Witness ==
  /\ attempts = 1
  /\ getEnv("post_message") = EmptyStr
  /\ env.file.content = <<"h", "e", "l", "l", "o">>
  /\ requestBody.Text =
       MentionToken(<<"1">>, <<"a">>) \o <<"h", "e", "l", "l", "o">>

TransportReports == {"Failed to create request", "Failed to send request"}

\* C8: at most one request is sent in a run, and a transport error ends the
\* run with exit status 1, no response and no further attempt.
C8_NoRetry ==
  /\ attempts <= 1
  /\ pc \in {"read", "parse", "check"} => attempts = 1
  /\ (attempts = 1 /\ ~resp.received) =>
       /\ exited /\ exitCode = 1
       /\ stderr.error = "Failed to send request"
  /\ stderr.error \in TransportReports =>
       /\ exited /\ exitCode = 1 /\ ~resp.received
       /\ attempts = (IF stderr.error = "Failed to send request" THEN 1 ELSE 0)

\* the one send fails: exit 1 after a single attempt
C8_Witness ==
  /\ exited /\ exitCode = 1 /\ attempts = 1
  /\ stderr.error = "Failed to send request"

====
